---- MODULE Spec2Model ----
(***************************************************************************)
(* A model of the SFT harness: the GSM8K dataset adapter                   *)
(* (verl/utils/dataset/sft_dataset.py), the FSDP SFT trainer               *)
(* (verl/trainer/fsdp_sft_trainer.py) and the interactive chat REPL        *)
(* (scripts/inference.py).                                                 *)
(*                                                                         *)
(* Strings are sequences of one-character strings, tensors are sequences   *)
(* of integers (1-based here, 0-based in the source).                      *)
(***************************************************************************)
EXTENDS Integers, Sequences, FiniteSets, TLC

VARIABLES
    max_seq_len,   \* GSM8KDataset.max_seq_len
    template,      \* the tokenizer's chat template (what apply_chat_template renders with)
    micro_bsz,     \* rows per batch handed to _compute_loss
    batch,         \* the rows collated so far: a sequence of __getitem__ frames
    lossrec,       \* <<the frame of _compute_loss on `batch`>>, or <<>> outside the call
    world_size,    \* device_mesh.size(): the number of ranks
    config,        \* the configuration document every rank is started with
    loader,        \* len(train_dataloader) and len(val_dataloader)
    entry,         \* what the caller invokes on the constructed trainer
    rk,            \* per rank: its position, its copy of the batch sizes, its locals
    ckpts,         \* the checkpoint directories written, in order
    messages,      \* the REPL's chat history
    repl_pc,       \* where the REPL is: at the prompt, generating, exited
    events,        \* what the REPL has read and generated so far, in order
    seed,          \* the sampler's shuffle of the epoch
    lossrk         \* per rank: the frame of _compute_loss on its micro-batch

dsVars == <<max_seq_len, template, micro_bsz, batch, lossrec>>
trVars == <<world_size, config, loader, entry, rk, ckpts>>

replVars == <<messages, repl_pc, events>>

lossVars == <<seed, lossrk>>

vars == <<dsVars, trVars, replVars, lossVars>>

Min(a, b) == IF a < b THEN a ELSE b
Max(a, b) == IF a > b THEN a ELSE b

RECURSIVE SumSeq(_)
SumSeq(s) == IF s = <<>> THEN 0 ELSE s[1] + SumSeq(Tail(s))

RECURSIVE Flatten(_)
Flatten(ss) == IF ss = <<>> THEN <<>> ELSE ss[1] \o Flatten(Tail(ss))

-----------------------------------------------------------------------------
(* Bounds of the model *)

MaxSeqLenBound == 10   \* max_seq_len ranges over 1..MaxSeqLenBound
BatchRows == 2         \* rows per batch range over 1..BatchRows
MaxRanks == 2          \* world_size ranges over 1..MaxRanks
MaxTotalBsz == 4       \* configured total_batch_size ranges over 1..MaxTotalBsz
MaxMicroBsz == 4       \* configured micro_batch_size ranges over 1..MaxMicroBsz
MaxEpochs == 2         \* total_epochs ranges over 0..MaxEpochs
MaxSteps == 2          \* len(train_dataloader) ranges over 0..MaxSteps
MaxValBatches == 2     \* len(val_dataloader) ranges over 0..MaxValBatches
MaxInputs == 4         \* lines read by the REPL

-----------------------------------------------------------------------------
(* Python string and slice primitives *)

Whitespace == {" ", "\n"}

\* str.rstrip(): drop trailing whitespace characters
RECURSIVE RStrip(_)
RStrip(s) ==
    IF s = <<>> THEN s
    ELSE IF s[Len(s)] \in Whitespace THEN RStrip(SubSeq(s, 1, Len(s) - 1))
    ELSE s

\* str.lstrip(): drop leading whitespace characters
RECURSIVE LStrip(_)
LStrip(s) ==
    IF s = <<>> THEN s
    ELSE IF s[1] \in Whitespace THEN LStrip(Tail(s))
    ELSE s

\* str.strip()
Strip(s) == LStrip(RStrip(s))

\* str.endswith(suffix)
EndsWith(s, suffix) ==
    /\ Len(s) >= Len(suffix)
    /\ SubSeq(s, Len(s) - Len(suffix) + 1, Len(s)) = suffix

\* s[n:] for n >= 0
SliceFrom(s, n) == SubSeq(s, Min(n, Len(s)) + 1, Len(s))

\* v[-m:] for m >= 0 (Python: -0 is 0, so v[-0:] is the whole of v)
SliceLast(v, m) ==
    IF m = 0 THEN v ELSE SubSeq(v, Max(Len(v) - m, 0) + 1, Len(v))

\* v[:m], the slice a head-keeping truncation would take
SliceFirst(v, m) == SubSeq(v, 1, Min(m, Len(v)))

\* F.pad(v, (0, n)): n zeros on the right
PadRight(v, n) == v \o [i \in 1..n |-> 0]

-----------------------------------------------------------------------------
(* The tokenizer (transformers), as the adapter uses it *)

eos_token == <<"<", ">">>

EosId == 9

CharId(c) ==
    CASE c = "a" -> 1
      [] c = " " -> 2
      [] c = "\n" -> 3
      [] c = "<" -> 4
      [] c = ">" -> 5
      [] c = "u" -> 6
      [] c = "s" -> 7
      [] OTHER -> 8

StartsWithAt(s, i, pre) ==
    /\ i + Len(pre) - 1 <= Len(s)
    /\ SubSeq(s, i, i + Len(pre) - 1) = pre

\* tokenizer.encode(s, add_special_tokens=False): the special token is one
\* id, every other character is one id
RECURSIVE EncodeFrom(_, _)
EncodeFrom(s, i) ==
    IF i > Len(s) THEN <<>>
    ELSE IF StartsWithAt(s, i, eos_token)
         THEN <<EosId>> \o EncodeFrom(s, i + Len(eos_token))
         ELSE <<CharId(s[i])>> \o EncodeFrom(s, i + 1)

Encode(s) == EncodeFrom(s, 1)

\* The chat templates: how a user turn and an assistant turn are wrapped.
\* The generation prompt is the assistant turn's opening.
Headers ==
    { [userOpen |-> <<>>, userClose |-> <<"\n">>, asstOpen |-> <<>>],
      [userOpen |-> <<"u">>, userClose |-> <<"\n">>, asstOpen |-> <<"s">>] }

AsstCloses ==
    { <<>>, eos_token, eos_token \o <<"\n">>, <<"\n">>, eos_token \o <<" ", "\n">> }

Templates ==
    { [userOpen |-> h.userOpen, userClose |-> h.userClose,
       asstOpen |-> h.asstOpen, asstClose |-> c] : h \in Headers, c \in AsstCloses }

RenderTurn(t, m) ==
    IF m.role = "user" THEN t.userOpen \o m.content \o t.userClose
    ELSE t.asstOpen \o m.content \o t.asstClose

RECURSIVE RenderTurns(_, _)
RenderTurns(t, msgs) ==
    IF msgs = <<>> THEN <<>>
    ELSE RenderTurn(t, msgs[1]) \o RenderTurns(t, Tail(msgs))

\* tokenizer.apply_chat_template(msgs, tokenize=False, add_generation_prompt=g)
ApplyChatTemplate(t, msgs, add_generation_prompt) ==
    RenderTurns(t, msgs) \o (IF add_generation_prompt THEN t.asstOpen ELSE <<>>)

-----------------------------------------------------------------------------
(* GSM8KDataset *)

\* self._data: question/answer rows
Data ==
    << [question |-> <<"a">>, answer |-> <<"a">>],
       [question |-> <<"a">>, answer |-> <<"a", "a", "a", "a">>],
       [question |-> <<"a", "a", "a">>, answer |-> <<"a", "a">>],
       [question |-> <<"a", "a", "a", "a", "a">>, answer |-> <<"a", " ">>],
       [question |-> <<"a", "a">>, answer |-> <<"a", "a", "a", "a", "a", "a">>] >>

Messages(index) ==
    << [role |-> "user", content |-> Data[index].question],
       [role |-> "assistant", content |-> Data[index].answer] >>

PromptStr(t, index) == ApplyChatTemplate(t, SubSeq(Messages(index), 1, 1), TRUE)

\* the full rendering beyond the prompt rendering's length
RenderedResponse(t, index) ==
    SliceFrom(ApplyChatTemplate(t, Messages(index), FALSE), Len(PromptStr(t, index)))

\* the test of line 40 with the rstrip() left out
NeedsEosNoStrip(response_str) == ~EndsWith(response_str, eos_token)

\* line 40: whether the end-of-sequence token is to be appended
NeedsEos(response_str) == ~EndsWith(RStrip(response_str), eos_token)

ResponseStr(t, index) ==
    LET r == RenderedResponse(t, index)
    IN  IF NeedsEos(r) THEN r \o eos_token ELSE r

\* a loss mask with the two spans swapped
LossMaskSwapped(np, nr) == [i \in 1..(np + nr) |-> IF i <= np THEN 1 ELSE 0]

\* line 48: [0] * len(prompt_ids) + [1] * len(response_ids)
LossMask(np, nr) == [i \in 1..(np + nr) |-> IF i <= np THEN 0 ELSE 1]

\* lines 45-54: the tensors before padding or truncation
ModelInputs(prompt_ids, response_ids) ==
    LET ids == prompt_ids \o response_ids
    IN  [input_ids |-> ids,
         attention_mask |-> [i \in 1..Len(ids) |-> 1],
         position_ids |-> [i \in 1..Len(ids) |-> i - 1],
         loss_mask |-> LossMask(Len(prompt_ids), Len(response_ids))]

\* a truncation that keeps the head
TruncateHead(v, m) == SliceFirst(v, m)

\* line 60: v[-self.max_seq_len:]
Truncate(v, m) == SliceLast(v, m)

\* lines 56-60
PadOrTruncate(v, m) ==
    IF Len(v) < m THEN PadRight(v, m - Len(v)) ELSE Truncate(v, m)

Keys == {"input_ids", "attention_mask", "position_ids", "loss_mask"}

\* The frame of __getitem__(index): its locals and the returned dict (ret)
GetItemFrame(t, m, index) ==
    LET rendered == RenderedResponse(t, index)
        response_str == ResponseStr(t, index)
        prompt_ids == Encode(PromptStr(t, index))
        response_ids == Encode(response_str)
        model_inputs == ModelInputs(prompt_ids, response_ids)
    IN  [index |-> index,
         rendered |-> rendered,
         response_str |-> response_str,
         prompt_ids |-> prompt_ids,
         response_ids |-> response_ids,
         model_inputs |-> model_inputs,
         ret |-> [k \in Keys |-> PadOrTruncate(model_inputs[k], m)]]

-----------------------------------------------------------------------------
(* FSDPSFTTrainer._compute_loss: what is masked *)

\* line 181: loss_mask[:, :-1]
ShiftMask(row) == SubSeq(row, 1, Len(row) - 1)

\* line 182: input_ids[:, 1:]
ShiftLabels(row) == Tail(row)

\* lines 181-202: the flattened mask and labels and the valid-token count
ComputeLossFrame(rows) ==
    LET loss_mask == Flatten([r \in 1..Len(rows) |-> ShiftMask(rows[r].ret.loss_mask)])
        shift_labels == Flatten([r \in 1..Len(rows) |-> ShiftLabels(rows[r].ret.input_ids)])
    IN  [loss_mask |-> loss_mask,
         shift_labels |-> shift_labels,
         valid_tokens |-> SumSeq(loss_mask)]

-----------------------------------------------------------------------------
(* The dataset specification: a DataLoader collates rows, _compute_loss     *)
(* runs on the batch, the step returns.                                     *)

ReplIdle ==
    /\ messages = <<>>
    /\ repl_pc = "idle"
    /\ events = <<>>

LossIdle ==
    /\ seed = 0
    /\ lossrk = <<>>

TrainerIdle ==
    /\ world_size = 0
    /\ config = [total_batch_size |-> 0, micro_batch_size |-> 0,
                 total_epochs |-> 0, balance_dp_token |-> FALSE]
    /\ loader = [train |-> 0, val |-> 0]
    /\ entry = "none"
    /\ rk = <<>>
    /\ ckpts = <<>>

InitDataset ==
    /\ TrainerIdle
    /\ ReplIdle
    /\ LossIdle
    /\ max_seq_len \in 1..MaxSeqLenBound
    /\ template \in Templates
    /\ micro_bsz \in 1..BatchRows
    /\ batch = <<>>
    /\ lossrec = <<>>

GetItem(index) ==
    /\ lossrec = <<>>
    /\ Len(batch) < micro_bsz
    /\ batch' = Append(batch, GetItemFrame(template, max_seq_len, index))
    /\ UNCHANGED <<max_seq_len, template, micro_bsz, lossrec, trVars, replVars, lossVars>>

ComputeLoss ==
    /\ lossrec = <<>>
    /\ Len(batch) = micro_bsz
    /\ lossrec' = <<ComputeLossFrame(batch)>>
    /\ UNCHANGED <<max_seq_len, template, micro_bsz, batch, trVars, replVars, lossVars>>

StepReturn ==
    /\ lossrec # <<>>
    /\ batch' = <<>>
    /\ lossrec' = <<>>
    /\ UNCHANGED <<max_seq_len, template, micro_bsz, trVars, replVars, lossVars>>

NextDataset ==
    \/ \E index \in 1..Len(Data) : GetItem(index)
    \/ ComputeLoss
    \/ StepReturn

SpecDataset == InitDataset /\ [][NextDataset]_vars

-----------------------------------------------------------------------------
(* FSDPSFTTrainer: one process per rank, blocking collectives               *)
(*                                                                         *)
(* A rank is at a program point rk[r].pc. At a collective's point it       *)
(* issues the operation (appending it to rk[r].log) and blocks; it is      *)
(* released when every rank has issued its operation of the same number    *)
(* and those operations are the same collective. The collectives inside    *)
(* the FSDP wrapper (forward, backward, clip_grad_norm_) are issued alike  *)
(* by every rank within a step and are not listed.                         *)

Ranks == 0..(world_size - 1)

DatasetIdle ==
    /\ max_seq_len = 1
    /\ template = [userOpen |-> <<>>, userClose |-> <<"\n">>,
                   asstOpen |-> <<>>, asstClose |-> <<>>]
    /\ micro_bsz = 1
    /\ batch = <<>>
    /\ lossrec = <<>>

\* The program points at which a collective is issued, and the collective
CollectiveOp(pc) ==
    CASE pc = "init_barrier" -> "barrier"              \* line 60
      [] pc = "train_tok_allreduce" -> "all_reduce_sum" \* line 204, from training_step
      [] pc = "loss_allreduce" -> "all_reduce_avg"      \* line 234
      [] pc = "val_tok_allreduce" -> "all_reduce_sum"   \* line 204, from validation_step
      [] pc = "val_allreduce" -> "all_reduce_avg"       \* line 241
      [] pc = "epoch_barrier" -> "barrier"              \* line 300
      [] pc = "ckpt_gather" -> "state_dict"             \* lines 247-248
      [] pc = "ckpt_barrier" -> "barrier"               \* line 258

CollectivePoints ==
    {"init_barrier", "train_tok_allreduce", "loss_allreduce", "val_tok_allreduce",
     "val_allreduce", "epoch_barrier", "ckpt_gather", "ckpt_barrier"}

\* the asserts interleaved with the divisions
NormalizeInterleaved(total, micro, dp_size) ==
    IF total % dp_size # 0
    THEN [ok |-> FALSE, total_batch_size |-> total, micro_batch_size |-> micro]
    ELSE IF micro % dp_size # 0
    THEN [ok |-> FALSE, total_batch_size |-> total \div dp_size, micro_batch_size |-> micro]
    ELSE [ok |-> TRUE, total_batch_size |-> total \div dp_size,
          micro_batch_size |-> micro \div dp_size]

\* lines 64-69: both asserts, then both floor divisions
NormalizeConfigBsz(total, micro, dp_size) ==
    IF total % dp_size # 0 \/ micro % dp_size # 0
    THEN [ok |-> FALSE, total_batch_size |-> total, micro_batch_size |-> micro]
    ELSE [ok |-> TRUE, total_batch_size |-> total \div dp_size,
          micro_batch_size |-> micro \div dp_size]

\* batch.split(split_size): consecutive chunks of split_size rows, the last
\* one holding what is left
RECURSIVE Split(_, _)
Split(rows, split_size) ==
    IF rows = <<>> THEN <<>>
    ELSE LET n == Min(split_size, Len(rows))
         IN  <<SubSeq(rows, 1, n)>> \o Split(SubSeq(rows, n + 1, Len(rows)), split_size)

\* a barrier that only rank zero issues
AfterValidationRankZeroBarrier(r) == IF r = 0 THEN "epoch_barrier" ELSE "ckpt_gather"

\* lines 295-300: after the rank-zero-only averaging every rank goes to the barrier
AfterValidation(r) == "epoch_barrier"

\* a checkpoint named by the epoch
CheckpointStepEpoch(rec) == rec.epoch

\* line 302: save_checkpoint(step=global_step)
CheckpointStep(rec) == rec.global_step

\* every rank writes
IsWriterAll(r) == TRUE

\* line 254: if self.device_mesh.get_rank() == 0
IsWriter(r) == r = 0

\* the state of a rank's process before __init__
RankInit ==
    [pc |-> "init", waiting |-> FALSE, log |-> <<>>,
     total_batch_size |-> config.total_batch_size,
     micro_batch_size |-> config.micro_batch_size,
     built |-> FALSE, epoch |-> 0, tstep |-> 0, vstep |-> 0, global_step |-> 0,
     micro_batches |-> <<>>, mbi |-> 0, step |-> 0, save_calls |-> 0, save_returns |-> 0]

Configs ==
    [total_batch_size : 1..MaxTotalBsz, micro_batch_size : 1..MaxMicroBsz,
     total_epochs : 0..MaxEpochs, balance_dp_token : BOOLEAN]

InitTrainer ==
    /\ DatasetIdle
    /\ ReplIdle
    /\ LossIdle
    /\ world_size \in 1..MaxRanks
    /\ config \in Configs
    /\ loader \in [train : 0..MaxSteps, val : 0..MaxValBatches]
    /\ entry = "fit"
    /\ rk = [r \in Ranks |-> RankInit]
    /\ ckpts = <<>>

\* the caller is main() (fit) or one that checkpoints the constructed trainer
InitTrainerAPI ==
    /\ DatasetIdle
    /\ ReplIdle
    /\ LossIdle
    /\ world_size \in 1..MaxRanks
    /\ config \in Configs
    /\ loader \in [train : 0..MaxSteps, val : 0..MaxValBatches]
    /\ entry \in {"fit", "save_checkpoint"}
    /\ rk = [r \in Ranks |-> RankInit]
    /\ ckpts = <<>>

Set(r, rec) ==
    /\ rk' = [rk EXCEPT ![r] = rec]
    /\ UNCHANGED <<world_size, config, loader, entry, ckpts, dsVars, replVars, lossVars>>

At(r, point) == rk[r].pc = point /\ ~rk[r].waiting

\* _normalize_config_bsz (line 57): an AssertionError ends the process
Normalize(r) ==
    /\ At(r, "init")
    /\ LET n == NormalizeConfigBsz(rk[r].total_batch_size, rk[r].micro_batch_size, world_size)
       IN  Set(r, [rk[r] EXCEPT !.pc = IF n.ok THEN "normalized" ELSE "failed",
                                !.total_batch_size = n.total_batch_size,
                                !.micro_batch_size = n.micro_batch_size])

\* _build_dataloader and _build_model_optimizer (lines 58-59)
Build(r) ==
    /\ At(r, "normalized")
    /\ Set(r, [rk[r] EXCEPT !.pc = "init_barrier", !.built = TRUE])

\* a rank issues the collective of its program point and blocks in it
Issue(r) ==
    /\ rk[r].pc \in CollectivePoints
    /\ ~rk[r].waiting
    /\ Set(r, [rk[r] EXCEPT !.waiting = TRUE,
                            !.log = Append(@, [op |-> CollectiveOp(rk[r].pc), site |-> rk[r].pc])])

\* every rank has issued its collective of the same number, the same operation
Released(r) ==
    /\ rk[r].waiting
    /\ \A q \in Ranks :
        /\ Len(rk[q].log) >= Len(rk[r].log)
        /\ rk[q].log[Len(rk[r].log)].op = rk[r].log[Len(rk[r].log)].op

\* the next micro-batch of training_step, or the step's loss all-reduce
AfterBackward(rec) ==
    IF rec.mbi < Len(rec.micro_batches)
    THEN [rec EXCEPT !.mbi = @ + 1,
                     !.pc = IF config.balance_dp_token THEN "train_tok_allreduce"
                            ELSE "backward"]
    ELSE [rec EXCEPT !.pc = "loss_allreduce"]

\* __init__ returns (lines 60-62) and the caller calls fit() (line 310)
CallFit(r) ==
    /\ rk[r].pc = "init_barrier" /\ Released(r)
    /\ entry = "fit"
    /\ Set(r, [rk[r] EXCEPT !.waiting = FALSE, !.pc = "epoch_head",
                            !.epoch = 0, !.global_step = 0])

\* __init__ returns and the caller calls save_checkpoint(step) itself
CallSaveCheckpoint(r) ==
    /\ rk[r].pc = "init_barrier" /\ Released(r)
    /\ entry = "save_checkpoint"
    /\ Set(r, [rk[r] EXCEPT !.waiting = FALSE, !.pc = "ckpt_gather",
                            !.step = 0, !.save_calls = @ + 1])

\* line 270: the next epoch, or fit() returns
EpochHead(r) ==
    /\ At(r, "epoch_head")
    /\ Set(r, IF rk[r].epoch < config.total_epochs
              THEN [rk[r] EXCEPT !.pc = "train_head", !.tstep = 0, !.vstep = 0]
              ELSE [rk[r] EXCEPT !.pc = "returned"])

\* lines 274-280 and 217-221: the next training batch is split into
\* micro-batches and the first _compute_loss starts; or the loop is over
TrainHead(r) ==
    /\ At(r, "train_head")
    /\ Set(r, IF rk[r].tstep < loader.train
              THEN [rk[r] EXCEPT
                      !.micro_batches =
                          Split([i \in 1..rk[r].total_batch_size |-> i], rk[r].micro_batch_size),
                      !.mbi = 1,
                      !.pc = IF config.balance_dp_token THEN "train_tok_allreduce"
                             ELSE "backward"]
              ELSE [rk[r] EXCEPT !.pc = "val_head"])

\* lines 204-207 and 221-223 with balancing: the token count is reduced,
\* the loss is scaled and backpropagated
TrainTokAllReduce(r) ==
    /\ rk[r].pc = "train_tok_allreduce" /\ Released(r)
    /\ Set(r, AfterBackward([rk[r] EXCEPT !.waiting = FALSE]))

\* lines 207 and 221-223 without balancing
Backward(r) ==
    /\ At(r, "backward")
    /\ Set(r, AfterBackward(rk[r]))

\* lines 232-235 and 281-285: the step's loss is averaged, rank zero logs,
\* global_step is incremented
LossAllReduce(r) ==
    /\ rk[r].pc = "loss_allreduce" /\ Released(r)
    /\ Set(r, [rk[r] EXCEPT !.waiting = FALSE, !.pc = "train_head",
                            !.micro_batches = <<>>, !.mbi = 0,
                            !.tstep = @ + 1, !.global_step = @ + 1])

\* lines 288-292: the next validation batch, or the loop is over
ValHead(r) ==
    /\ At(r, "val_head")
    /\ Set(r, IF rk[r].vstep < loader.val
              THEN [rk[r] EXCEPT !.pc = IF config.balance_dp_token THEN "val_tok_allreduce"
                                        ELSE "val_allreduce"]
              ELSE [rk[r] EXCEPT !.pc = "val_avg"])

\* lines 204-207, from validation_step
ValTokAllReduce(r) ==
    /\ rk[r].pc = "val_tok_allreduce" /\ Released(r)
    /\ Set(r, [rk[r] EXCEPT !.waiting = FALSE, !.pc = "val_allreduce"])

\* lines 241-243 and 293: the loss is averaged and appended to val_losses
ValAllReduce(r) ==
    /\ rk[r].pc = "val_allreduce" /\ Released(r)
    /\ Set(r, [rk[r] EXCEPT !.waiting = FALSE, !.pc = "val_head", !.vstep = @ + 1])

\* lines 295-298: rank zero averages val_losses; torch.stack of an empty
\* list raises and ends the process
ValAverage(r) ==
    /\ At(r, "val_avg")
    /\ Set(r, IF r = 0 /\ rk[r].vstep = 0
              THEN [rk[r] EXCEPT !.pc = "crashed"]
              ELSE [rk[r] EXCEPT !.pc = AfterValidation(r)])

\* lines 300-302: the barrier is passed and save_checkpoint(step=global_step) is called
EpochBarrier(r) ==
    /\ rk[r].pc = "epoch_barrier" /\ Released(r)
    /\ Set(r, [rk[r] EXCEPT !.waiting = FALSE, !.pc = "ckpt_gather",
                            !.step = CheckpointStep(rk[r]), !.save_calls = @ + 1])

\* lines 246-254: the state dict is gathered; rank zero goes on to write
CkptGather(r) ==
    /\ rk[r].pc = "ckpt_gather" /\ Released(r)
    /\ Set(r, [rk[r] EXCEPT !.waiting = FALSE,
                            !.pc = IF IsWriter(r) THEN "ckpt_write" ELSE "ckpt_barrier"])

\* line 255: the write of global_step_{step} starts
WriteStart(r) ==
    /\ At(r, "ckpt_write")
    /\ Set(r, [rk[r] EXCEPT !.pc = "ckpt_writing"])

\* lines 255-256: model and tokenizer are written
WriteEnd(r) ==
    /\ At(r, "ckpt_writing")
    /\ rk' = [rk EXCEPT ![r] = [@ EXCEPT !.pc = "ckpt_barrier"]]
    /\ ckpts' = Append(ckpts, [step |-> rk[r].step, rank |-> r, epoch |-> rk[r].epoch])
    /\ UNCHANGED <<world_size, config, loader, entry, dsVars, replVars, lossVars>>

\* line 258: save_checkpoint returns, to fit()'s loop or to the caller
CkptBarrier(r) ==
    /\ rk[r].pc = "ckpt_barrier" /\ Released(r)
    /\ Set(r, IF entry = "fit"
              THEN [rk[r] EXCEPT !.waiting = FALSE, !.pc = "epoch_head",
                                 !.epoch = @ + 1, !.save_returns = @ + 1]
              ELSE [rk[r] EXCEPT !.waiting = FALSE, !.pc = "returned",
                                 !.save_returns = @ + 1])

RankStep(r) ==
    /\ r \in Ranks
    /\ \/ Normalize(r)
       \/ Build(r)
       \/ Issue(r)
       \/ CallFit(r)
       \/ EpochHead(r)
       \/ TrainHead(r)
       \/ TrainTokAllReduce(r)
       \/ Backward(r)
       \/ LossAllReduce(r)
       \/ ValHead(r)
       \/ ValTokAllReduce(r)
       \/ ValAllReduce(r)
       \/ ValAverage(r)
       \/ EpochBarrier(r)
       \/ CkptGather(r)
       \/ WriteStart(r)
       \/ WriteEnd(r)
       \/ CkptBarrier(r)

NextTrainer ==
    \/ \E r \in Ranks : Normalize(r)
    \/ \E r \in Ranks : Build(r)
    \/ \E r \in Ranks : Issue(r)
    \/ \E r \in Ranks : CallFit(r)
    \/ \E r \in Ranks : EpochHead(r)
    \/ \E r \in Ranks : TrainHead(r)
    \/ \E r \in Ranks : TrainTokAllReduce(r)
    \/ \E r \in Ranks : Backward(r)
    \/ \E r \in Ranks : LossAllReduce(r)
    \/ \E r \in Ranks : ValHead(r)
    \/ \E r \in Ranks : ValTokAllReduce(r)
    \/ \E r \in Ranks : ValAllReduce(r)
    \/ \E r \in Ranks : ValAverage(r)
    \/ \E r \in Ranks : EpochBarrier(r)
    \/ \E r \in Ranks : CkptGather(r)
    \/ \E r \in Ranks : WriteStart(r)
    \/ \E r \in Ranks : WriteEnd(r)
    \/ \E r \in Ranks : CkptBarrier(r)

NextTrainerAPI ==
    \/ NextTrainer
    \/ \E r \in Ranks : CallSaveCheckpoint(r)

SpecTrainer == InitTrainer /\ [][NextTrainer]_vars

SpecTrainerAPI == InitTrainerAPI /\ [][NextTrainerAPI]_vars

\* every rank is a process that keeps running
FairTrainer == SpecTrainer /\ \A r \in 0..(MaxRanks - 1) : WF_vars(RankStep(r))

-----------------------------------------------------------------------------
(* scripts/inference.py: the interactive REPL *)

ExitCmd == <<"e", "x", "i", "t">>
ClearCmd == <<"c", "l", "e", "a", "r">>

\* what input() may return
Queries ==
    { ExitCmd,
      <<" ">> \o ExitCmd \o <<" ">>,
      ClearCmd,
      ClearCmd \o <<" ">>,
      <<"a">>,
      <<>>,
      ExitCmd \o <<" ", "a">> }

\* what tokenizer.decode may return for the generated tokens
Responses == { <<"a">>, ClearCmd }

\* line 28: query.strip() == "exit"
IsExit(query) == Strip(query) = ExitCmd

\* the test of line 31 without the strip()
IsClearNoStrip(query) == query = ClearCmd

\* line 31: query.strip() == "clear"
IsClear(query) == Strip(query) = ClearCmd

InitRepl ==
    /\ DatasetIdle
    /\ TrainerIdle
    /\ LossIdle
    /\ messages = <<>>
    /\ repl_pc = "prompt"
    /\ events = <<>>

InputsSoFar == Cardinality({i \in 1..Len(events) : events[i].kind = "input"})

\* lines 26-36: one line is read; exit leaves the loop, clear empties the
\* history, anything else is appended as a user turn and generation starts
Input(query) ==
    /\ repl_pc = "prompt"
    /\ InputsSoFar < MaxInputs
    /\ events' = Append(events, [kind |-> "input", text |-> query])
    /\ IF IsExit(query)
       THEN /\ repl_pc' = "exited"
            /\ UNCHANGED messages
       ELSE IF IsClear(query)
       THEN /\ repl_pc' = "prompt"
            /\ messages' = <<>>
       ELSE /\ repl_pc' = "generating"
            /\ messages' = Append(messages, [role |-> "user", content |-> query])
    /\ UNCHANGED <<dsVars, trVars, lossVars>>

\* lines 47-49: the response is decoded and appended as an assistant turn
Generate(response) ==
    /\ repl_pc = "generating"
    /\ events' = Append(events, [kind |-> "response", text |-> response])
    /\ messages' = Append(messages, [role |-> "assistant", content |-> response])
    /\ repl_pc' = "prompt"
    /\ UNCHANGED <<dsVars, trVars, lossVars>>

NextRepl ==
    \/ \E query \in Queries : Input(query)
    \/ \E response \in Responses : Generate(response)

SpecRepl == InitRepl /\ [][NextRepl]_vars

-----------------------------------------------------------------------------
(* _compute_loss across the ranks: the masked mean's denominator            *)
(*                                                                         *)
(* Every rank takes its micro-batch from its sampler, counts its valid     *)
(* tokens and, with balance_dp_token, all-reduces the count. The count     *)
(* divided by the world size is held as a fraction num/den.                *)

\* lines 88-105: rank r's rows of one micro-batch. DistributedSampler gives
\* rank r every world_size-th index of the permutation, from its r-th; the
\* permutations are the rotations by `seed` (0 is the unshuffled order)
SamplerIndices(r) ==
    [j \in 1..micro_bsz |-> ((seed + r + world_size * (j - 1)) % Len(Data)) + 1]

\* drop_last: a micro-batch exists only when every rank gets micro_bsz rows
HasMicroBatch == world_size * micro_bsz <= Len(Data)

\* the reduced count used as it is
UseTotal(reduced, n) == [num |-> reduced, den |-> 1]

\* line 205: valid_tokens / dist.get_world_size()
DivideByWorldSize(reduced, n) == [num |-> reduced, den |-> n]

\* line 204: dist.all_reduce(valid_tokens), the sum over the ranks
AllReduceSum == SumSeq([i \in 1..world_size |-> lossrk[i - 1].valid_tokens])

LossRankInit ==
    [pc |-> "start", rows |-> <<>>, loss_mask |-> <<>>, valid_tokens |-> 0,
     denominator |-> [num |-> 0, den |-> 1], loss |-> "none"]

InitLoss ==
    /\ ReplIdle
    /\ max_seq_len \in 1..MaxSeqLenBound
    /\ template \in Templates
    /\ micro_bsz \in 1..BatchRows
    /\ batch = <<>>
    /\ lossrec = <<>>
    /\ world_size \in 1..MaxRanks
    /\ config \in [total_batch_size : {0}, micro_batch_size : {micro_bsz},
                   total_epochs : {0}, balance_dp_token : BOOLEAN]
    /\ loader = [train |-> 0, val |-> 0]
    /\ entry = "none"
    /\ rk = <<>>
    /\ ckpts = <<>>
    /\ seed \in 0..(Len(Data) - 1)
    /\ lossrk = [r \in Ranks |-> LossRankInit]

SetLoss(r, rec) ==
    /\ lossrk' = [lossrk EXCEPT ![r] = rec]
    /\ UNCHANGED <<seed, dsVars, trVars, replVars>>

\* lines 181 and 202: the rank's micro-batch is masked and its valid tokens
\* counted; with balancing the count goes to the all-reduce
CountValidTokens(r) ==
    /\ lossrk[r].pc = "start"
    /\ HasMicroBatch
    /\ LET rows == [j \in 1..micro_bsz |->
                      GetItemFrame(template, max_seq_len, SamplerIndices(r)[j])]
           f == ComputeLossFrame(rows)
       IN  SetLoss(r, [lossrk[r] EXCEPT
                         !.rows = rows,
                         !.loss_mask = f.loss_mask,
                         !.valid_tokens = f.valid_tokens,
                         !.denominator = [num |-> f.valid_tokens, den |-> 1],
                         !.pc = IF config.balance_dp_token THEN "all_reduce" ELSE "divide"])

\* lines 204-205: every rank has contributed; the sum is divided by the world size
AllReduceValidTokens(r) ==
    /\ lossrk[r].pc = "all_reduce"
    /\ \A q \in Ranks : lossrk[q].pc # "start"
    /\ SetLoss(r, [lossrk[r] EXCEPT
                     !.denominator = DivideByWorldSize(AllReduceSum, world_size),
                     !.pc = "divide"])

\* line 207: torch.sum(loss) / valid_tokens; with no valid token that is 0 / 0
MaskedMean(r) ==
    /\ lossrk[r].pc = "divide"
    /\ SetLoss(r, [lossrk[r] EXCEPT
                     !.loss = IF lossrk[r].denominator.num = 0 THEN "nan" ELSE "finite",
                     !.pc = "done"])

NextLoss ==
    \/ \E r \in Ranks : CountValidTokens(r)
    \/ \E r \in Ranks : AllReduceValidTokens(r)
    \/ \E r \in Ranks : MaskedMean(r)

SpecLoss == InitLoss /\ [][NextLoss]_vars

-----------------------------------------------------------------------------
(* Properties of the dataset adapter and of the loss mask *)

PromptLen(f) == Len(f.prompt_ids)
ResponseLen(f) == Len(f.response_ids)
UntruncatedLen(f) == PromptLen(f) + ResponseLen(f)

\* What the token at window position j (1-based) of a returned row is
PosClass(f, j) ==
    IF UntruncatedLen(f) < max_seq_len
    THEN IF j <= PromptLen(f) THEN "prompt"
         ELSE IF j <= UntruncatedLen(f) THEN "response"
         ELSE "pad"
    ELSE IF j + (UntruncatedLen(f) - max_seq_len) <= PromptLen(f) THEN "prompt"
         ELSE "response"

\* C1: every returned array has length max_seq_len; a shorter example is the
\* unpadded array followed by zeros, a longer or equal one is exactly the
\* last max_seq_len elements of the unpadded array.
C1_PadOrTruncate ==
    \A r \in 1..Len(batch) :
        LET f == batch[r]
            L == UntruncatedLen(f)
        IN  /\ f.model_inputs.input_ids = f.prompt_ids \o f.response_ids
            /\ \A k \in Keys :
                LET out == f.ret[k]
                    unp == f.model_inputs[k]
                IN  /\ Len(unp) = L
                    /\ Len(out) = max_seq_len
                    /\ L < max_seq_len =>
                         \A i \in 1..max_seq_len :
                             out[i] = IF i <= L THEN unp[i] ELSE 0
                    /\ L >= max_seq_len =>
                         \A i \in 1..max_seq_len :
                             out[i] = unp[L - max_seq_len + i]

\* a batch holding a padded row and a truncated row
C1_Witness ==
    /\ Len(batch) = 2
    /\ UntruncatedLen(batch[1]) < max_seq_len
    /\ UntruncatedLen(batch[2]) > max_seq_len

\* C2: the loss mask sums to the number of response tokens when the example
\* fits, and to min(len(response_ids), max_seq_len) when it is truncated.
C2_LossMaskSum ==
    \A r \in 1..Len(batch) :
        LET f == batch[r]
        IN  SumSeq(f.ret.loss_mask) =
                IF UntruncatedLen(f) <= max_seq_len THEN ResponseLen(f)
                ELSE Min(ResponseLen(f), max_seq_len)

\* a batch holding a row that fits and a row whose response alone overflows
C2_Witness ==
    /\ Len(batch) = 2
    /\ UntruncatedLen(batch[1]) <= max_seq_len
    /\ ResponseLen(batch[2]) > max_seq_len
    /\ PromptLen(batch[2]) > 0

\* C3 as stated: the response text that is tokenized always ends with the
\* end-of-sequence marker.
C3_EndsWithEos ==
    \A r \in 1..Len(batch) : EndsWith(batch[r].response_str, eos_token)

\* C3 as amended: ignoring trailing whitespace, the response text always ends
\* with the end-of-sequence marker; the marker is appended exactly when the
\* rendering, ignoring trailing whitespace, does not end with it, and then
\* the text ends with the marker itself; otherwise the rendering is kept
\* unchanged, trailing whitespace included.
C3_EndsWithEosModuloWhitespace ==
    \A r \in 1..Len(batch) :
        LET f == batch[r]
        IN  /\ EndsWith(RStrip(f.response_str), eos_token)
            /\ IF EndsWith(RStrip(f.rendered), eos_token)
               THEN f.response_str = f.rendered
               ELSE /\ f.response_str = f.rendered \o eos_token
                    /\ EndsWith(f.response_str, eos_token)

\* a rendering that ends with the marker followed by whitespace: nothing is
\* appended and the text ends with the whitespace
C3_Witness ==
    /\ Len(batch) = 1
    /\ EndsWith(RStrip(batch[1].rendered), eos_token)
    /\ batch[1].rendered # RStrip(batch[1].rendered)
    /\ batch[1].response_str = batch[1].rendered
    /\ ~EndsWith(batch[1].response_str, eos_token)

\* Whether _compute_loss keeps the loss of the target at window position j
\* (2..max_seq_len) of row r: the flattened mask at the label's place
KeptTarget(r, j) ==
    lossrec[1].loss_mask[(r - 1) * (max_seq_len - 1) + (j - 1)] = 1

\* C9 as stated: the kept targets of _compute_loss are exactly the response
\* tokens that have a predecessor inside the window, never a prompt token
\* and never a padding token.
C9_LossOnResponseOnly ==
    lossrec # <<>> =>
        \A r \in 1..Len(batch) : \A j \in 2..max_seq_len :
            KeptTarget(r, j) <=> PosClass(batch[r], j) = "response"

-----------------------------------------------------------------------------
(* Properties of the trainer *)

Divisible ==
    /\ config.total_batch_size % world_size = 0
    /\ config.micro_batch_size % world_size = 0

\* C4: when a configured batch size is not divisible by the mesh size, init
\* fails before anything is built or any collective is issued, with both
\* batch sizes unchanged; when both are divisible, both are replaced by
\* their exact quotient, once (and keep that value for the rest of the run).
C4_NormalizeOrFail ==
    \A r \in Ranks :
        /\ rk[r].pc = "failed" =>
              /\ ~Divisible
              /\ rk[r].total_batch_size = config.total_batch_size
              /\ rk[r].micro_batch_size = config.micro_batch_size
              /\ ~rk[r].built
              /\ rk[r].log = <<>>
        /\ rk[r].pc \notin {"init", "failed"} =>
              /\ Divisible
              /\ rk[r].total_batch_size * world_size = config.total_batch_size
              /\ rk[r].micro_batch_size * world_size = config.micro_batch_size
        /\ (rk[r].built \/ rk[r].log # <<>>) => rk[r].pc \notin {"init", "failed"}

\* a rank whose init failed on the second check alone
C4_Witness ==
    \E r \in Ranks :
        /\ rk[r].pc = "failed"
        /\ config.total_batch_size % world_size = 0
        /\ config.micro_batch_size % world_size # 0

PrefixCompatible(a, b) == \A i \in 1..Min(Len(a), Len(b)) : a[i] = b[i]

CollectivesAgree ==
    \A r1 \in Ranks, r2 \in Ranks :
        /\ PrefixCompatible(rk[r1].log, rk[r2].log)
        /\ (rk[r1].pc = "returned" /\ rk[r2].pc = "returned") => rk[r1].log = rk[r2].log

AnyCrash == \E r \in Ranks : rk[r].pc \in {"failed", "crashed"}

AllReturned == \A r \in Ranks : rk[r].pc = "returned"

\* C5: the ranks issue the same collectives in the same order, and unless a
\* rank crashes every rank eventually returns from fit() (so no collective
\* waits forever).
C5_SameCollectivesAndReturn ==
    /\ [](CollectivesAgree)
    /\ <>(AnyCrash \/ AllReturned)

\* two ranks have returned from a fit() that used every collective
C5_Witness ==
    /\ world_size = 2
    /\ AllReturned
    /\ config.balance_dp_token
    /\ config.total_epochs = 2
    /\ loader.train = 2
    /\ loader.val = 2
    /\ Len(rk[0].micro_batches) = 0
    /\ {rk[1].log[i].site : i \in 1..Len(rk[1].log)} = CollectivePoints

InSave(q) == rk[q].pc \in {"ckpt_gather", "ckpt_write", "ckpt_writing", "ckpt_barrier"}

WriterAtWork == \E r \in Ranks : rk[r].pc \in {"ckpt_write", "ckpt_writing"}

\* the barriers of line 300 a rank has issued
PreCheckpointBarriers(q) ==
    Cardinality({i \in 1..Len(rk[q].log) : rk[q].log[i].site = "epoch_barrier"})

\* Rank zero alone writes; while it writes every rank is inside the same
\* call of save_checkpoint, having issued the state-dict gather; no rank
\* returns from a call of save_checkpoint before that call's write is done.
WriteIsFenced ==
    /\ \A r \in Ranks : rk[r].pc \in {"ckpt_write", "ckpt_writing"} => r = 0
    /\ \A k \in 1..Len(ckpts) : ckpts[k].rank = 0
    /\ WriterAtWork =>
          \A q \in Ranks :
              /\ InSave(q)
              /\ rk[q].save_calls = rk[0].save_calls
              /\ rk[q].save_returns = rk[0].save_calls - 1
              /\ Len(rk[q].log) >= Len(rk[0].log)
              /\ rk[q].log[Len(rk[0].log)].site = "ckpt_gather"
              /\ Len(ckpts) = rk[0].save_calls - 1
    /\ \A q \in Ranks : rk[q].save_returns <= Len(ckpts)

\* C6 as stated: for every call of save_checkpoint, also one not made from
\* fit(), the write starts only after every rank has reached that
\* checkpoint's barrier (and the write is fenced as above).
C6_BarrierBeforeEveryWrite ==
    /\ WriteIsFenced
    /\ WriterAtWork =>
          \A q \in Ranks : PreCheckpointBarriers(q) >= rk[0].save_calls

\* C6 as amended: the write is fenced by the state-dict gather before it and
\* by save_checkpoint's barrier after it in every call; the barrier before
\* the write is fit()'s, so it precedes the write, with every rank done
\* with the epoch's training and validation, in the calls made from fit().
C6_WriteFencedBarrierInFit ==
    /\ WriteIsFenced
    /\ (WriterAtWork /\ entry = "fit") =>
          \A q \in Ranks :
              /\ PreCheckpointBarriers(q) = rk[0].save_calls
              /\ rk[q].log[Len(rk[0].log) - 1].site = "epoch_barrier"
              /\ rk[q].epoch = rk[0].epoch
              /\ rk[q].tstep = loader.train
              /\ rk[q].vstep = loader.val

\* rank zero is writing the second checkpoint of a fit() while another rank
\* is inside save_checkpoint
C6_Witness ==
    /\ world_size = 2
    /\ entry = "fit"
    /\ rk[0].pc = "ckpt_writing"
    /\ rk[0].save_calls = 2
    /\ rk[1].pc = "ckpt_barrier"
    /\ rk[1].waiting

TrainPoints == {"train_head", "train_tok_allreduce", "backward", "loss_allreduce"}
ValPoints == {"val_head", "val_tok_allreduce", "val_allreduce", "val_avg"}

\* C7: in fit() every epoch runs all its training steps, then all its
\* validation steps, then the barrier, then one checkpoint; the checkpoint
\* of epoch e is named (e+1)*S; E checkpoints are written in all and no
\* training step follows the last.
C7_EpochOrderAndCheckpointStep ==
    /\ \A k \in 1..Len(ckpts) :
          /\ ckpts[k].step = k * loader.train
          /\ ckpts[k].epoch = k - 1
    /\ Len(ckpts) <= config.total_epochs
    /\ \A r \in Ranks :
          /\ rk[r].pc \in TrainPoints \cup ValPoints \cup {"epoch_barrier"} =>
                /\ Len(ckpts) = rk[r].epoch
                /\ rk[r].epoch < config.total_epochs
                /\ rk[r].global_step = rk[r].epoch * loader.train + rk[r].tstep
          /\ rk[r].pc \in ValPoints \cup {"epoch_barrier"} => rk[r].tstep = loader.train
          /\ rk[r].pc \in {"val_avg", "epoch_barrier"} => rk[r].vstep = loader.val
          /\ InSave(r) =>
                /\ rk[r].tstep = loader.train
                /\ rk[r].vstep = loader.val
                /\ rk[r].step = (rk[r].epoch + 1) * loader.train
                /\ rk[r].global_step = rk[r].step
                /\ rk[r].save_calls = rk[r].epoch + 1
          /\ rk[r].pc = "returned" =>
                /\ Len(ckpts) = config.total_epochs
                /\ rk[r].global_step = config.total_epochs * loader.train

\* two ranks have returned from two epochs of two steps
C7_Witness ==
    /\ world_size = 2
    /\ AllReturned
    /\ config.total_epochs = 2
    /\ loader.train = 2
    /\ Len(ckpts) = 2
    /\ ckpts[2].step = 4

\* C10 as stated: for every pair of batch sizes init accepts, training_step
\* splits the batch, in order, into micro-batches of exactly
\* micro_batch_size rows each (so no smaller trailing micro-batch exists and
\* the 1/n weighting gives every row the same weight).
C10_EqualMicroBatches ==
    \A r \in Ranks :
        rk[r].micro_batches # <<>> =>
            /\ Flatten(rk[r].micro_batches) = [i \in 1..rk[r].total_batch_size |-> i]
            /\ \A c \in 1..Len(rk[r].micro_batches) :
                  Len(rk[r].micro_batches[c]) = rk[r].micro_batch_size

-----------------------------------------------------------------------------
(* Properties of the REPL *)

StripsTo(e, cmd) == e.kind = "input" /\ Strip(e.text) = cmd

\* the place of the last input that strips to `clear`, 0 when there is none
LastClear ==
    LET S == {i \in 1..Len(events) : StripsTo(events[i], ClearCmd)}
    IN  IF S = {} THEN 0 ELSE CHOOSE i \in S : \A j \in S : j <= i

\* what was entered since the last `clear`, an `exit` left out
SinceClear ==
    LET tail == SubSeq(events, LastClear + 1, Len(events))
    IN  IF tail # <<>> /\ StripsTo(tail[Len(tail)], ExitCmd)
        THEN SubSeq(tail, 1, Len(tail) - 1)
        ELSE tail

\* C8: `exit` ends the loop without generating and leaves the history as it
\* is, `clear` empties the history without generating, any other input
\* appends one user turn and, after generation, one assistant turn; at every
\* prompt the history has even length, alternates user/assistant from user,
\* and holds exactly the turns entered since the last `clear`.
C8_HistoryShape ==
    /\ Len(messages) = Len(SinceClear)
    /\ \A i \in 1..Len(messages) :
          /\ messages[i].content = SinceClear[i].text
          /\ messages[i].role = IF SinceClear[i].kind = "input" THEN "user" ELSE "assistant"
          /\ messages[i].role = IF i % 2 = 1 THEN "user" ELSE "assistant"
    /\ \A i \in 1..Len(events) :
          \/ StripsTo(events[i], ExitCmd) \/ StripsTo(events[i], ClearCmd)
          => (i = Len(events) \/ events[i + 1].kind = "input")
    /\ \A i \in 1..(Len(events) - 1) : ~StripsTo(events[i], ExitCmd)
    /\ repl_pc \in {"prompt", "exited"} => Len(messages) % 2 = 0
    /\ repl_pc = "exited" <=> (events # <<>> /\ StripsTo(events[Len(events)], ExitCmd))
    /\ repl_pc = "generating" <=>
          /\ events # <<>>
          /\ events[Len(events)].kind = "input"
          /\ ~StripsTo(events[Len(events)], ExitCmd)
          /\ ~StripsTo(events[Len(events)], ClearCmd)

\* a turn, then a padded `clear`, then a turn, then a padded `exit`
C8_Witness ==
    /\ repl_pc = "exited"
    /\ Len(events) = 6
    /\ events[3].text = ClearCmd \o <<" ">>
    /\ events[6].text = <<" ">> \o ExitCmd \o <<" ">>
    /\ Len(messages) = 2

-----------------------------------------------------------------------------
(* Properties of the masked mean's denominator *)

\* the ones of a returned row's loss mask that lie before its last position
OnesBeforeLast(f) ==
    IF UntruncatedLen(f) < max_seq_len THEN ResponseLen(f)
    ELSE Min(ResponseLen(f), max_seq_len) - 1

\* a rank's own count over its micro-batch
OwnCount(r) ==
    SumSeq([j \in 1..Len(lossrk[r].rows) |-> OnesBeforeLast(lossrk[r].rows[j])])

TotalCount == SumSeq([i \in 1..world_size |-> OwnCount(i - 1)])

Divided(r) == lossrk[r].pc \in {"divide", "done"}

\* C11 as stated: the denominator is the rank's own count without
\* balancing and the total over all ranks with it, and it is strictly
\* positive for every micro-batch.
C11_DenominatorTotalAndPositive ==
    \A r \in Ranks :
        Divided(r) =>
            /\ lossrk[r].denominator.num =
                   lossrk[r].denominator.den *
                       (IF config.balance_dp_token THEN TotalCount ELSE OwnCount(r))
            /\ lossrk[r].denominator.num > 0

\* C11 as amended: the denominator is the rank's own count of ones of
\* loss_mask[:, :-1] without balancing and, with balancing, the sum of
\* these counts over all ranks divided by the world size (their mean); it
\* is never negative, and it is zero, the loss then being 0 / 0, exactly
\* when the counts it is made of are all zero.
C11_DenominatorMeanOverRanks ==
    \A r \in Ranks :
        /\ Divided(r) =>
              /\ lossrk[r].valid_tokens = OwnCount(r)
              /\ IF config.balance_dp_token
                 THEN /\ lossrk[r].denominator.den = world_size
                      /\ lossrk[r].denominator.num = TotalCount
                 ELSE /\ lossrk[r].denominator.den = 1
                      /\ lossrk[r].denominator.num = OwnCount(r)
              /\ lossrk[r].denominator.num >= 0
              /\ lossrk[r].denominator.num = 0 <=>
                    \A q \in Ranks :
                        (q = r \/ config.balance_dp_token) => OwnCount(q) = 0
        /\ lossrk[r].pc = "done" =>
              (lossrk[r].loss = "nan" <=> lossrk[r].denominator.num = 0)

\* two ranks with different counts have taken the balanced masked mean
C11_Witness ==
    /\ world_size = 2
    /\ config.balance_dp_token
    /\ \A r \in Ranks : lossrk[r].pc = "done" /\ lossrk[r].loss = "finite"
    /\ lossrk[0].valid_tokens # lossrk[1].valid_tokens
    /\ lossrk[0].valid_tokens > 0
    /\ lossrk[1].valid_tokens > 0

====
